---- MODULE Spec2Model ----
(***************************************************************************)
(* Software rasterization pipeline of 3DPlanets_Shaders: the frame loop of *)
(* main, render (vertex transform, triangle assembly, rasterization,       *)
(* shading, depth-tested write) and the Framebuffer it draws into.         *)
(*                                                                         *)
(* Numbers.  The program computes in f32.  The model computes on the       *)
(* integer grid: every f32 value is an integer, a quotient is the floor    *)
(* quotient (FDiv), and the inputs are drawn from small integer sets.      *)
(* The window is 2*HalfW by 2*HalfH pixels instead of 800 by 600, and the  *)
(* constants of main that only make sense at that size (field of view,     *)
(* near and far plane, moon scale and distance) are given at model scale.  *)
(*                                                                         *)
(* The modules framebuffer, triangle, fragment, vertex, color and camera   *)
(* are declared by main.rs and their files are not among the sources:      *)
(* Framebuffer, triangle, Fragment, Color and Camera are modelled from     *)
(* their specification and from the way main.rs and shaders.rs use them.   *)
(* Fragment::position is a glm vector of f32, like every vector of the     *)
(* program; render casts its components with `as usize`.                   *)
(***************************************************************************)
EXTENDS Integers, Sequences, FiniteSets, TLC

VARIABLES
    framebuffer,     \* the Framebuffer main owns: width, height, buffer, zbuffer, colors
    pc,              \* position of the running program
    time,            \* main: the frame counter
    current_planet,  \* main: the selected material id
    camera,          \* main: the camera's eye (the center follows it)
    vertex_arrays,   \* main: the vertex array of the loaded mesh
    call,            \* the render call in progress: body, shader, uniforms, triangles, emitted
    fragments,       \* render: the fragments not yet processed
    lastWrite,       \* history: the last call of Framebuffer::point and what led to it
    frameWrites,     \* history: the pixel indices written since the frame began
    presented,       \* history: what the window was last given, and how often this frame
    snapshot,        \* history: the framebuffer before the last clear, call or pass
    written,         \* history: the fragments handed to point since the last clear
    ops,             \* history: the number of Framebuffer calls made by the API driver
    last_key         \* history: the last key the window reported at the head of a frame

vars == <<framebuffer, pc, time, current_planet, camera, vertex_arrays, call,
          fragments, lastWrite, frameWrites, presented, snapshot, written, ops, last_key>>

----------------------------------------------------------------------------
(* Bounds of the model *)

HalfW == 2        \* half the width of the window and of main's framebuffer
HalfH == 2        \* half its height
MaxTime == 2      \* frames the frame loop runs
FbSide == 2       \* side of the framebuffer the API driver works on
MaxOps == 4       \* Framebuffer calls the API driver makes
MaxDepth == 2     \* largest depth the API driver passes
RSide == 3        \* side of the framebuffer of the two-pass render driver
DepthShift == 1   \* how much farther the second pass lies

----------------------------------------------------------------------------
(* Arithmetic *)

Abs(a) == IF a < 0 THEN -a ELSE a

Sign(a) == IF a < 0 THEN -1 ELSE IF a > 0 THEN 1 ELSE 0

\* The quotient a / b on the integer grid: the floor of the real quotient.
FDiv(a, b) == IF b > 0 THEN a \div b ELSE (-a) \div (-b)

Min2(a, b) == IF a < b THEN a ELSE b

Max2(a, b) == IF a > b THEN a ELSE b

RECURSIVE SumTo(_, _)
SumTo(f, n) == IF n = 0 THEN 0 ELSE f[n] + SumTo(f, n - 1)

Dot(u, v) == SumTo([i \in 1..Len(u) |-> u[i] * v[i]], Len(u))

\* The sequence f, evaluated once.
Tup(f) == f \o <<>>

----------------------------------------------------------------------------
(* Matrices: a matrix is the sequence of its rows *)

Identity4 == << <<1, 0, 0, 0>>, <<0, 1, 0, 0>>, <<0, 0, 1, 0>>, <<0, 0, 0, 1>> >>

Identity3 == << <<1, 0, 0>>, <<0, 1, 0>>, <<0, 0, 1>> >>

Column(m, j) == Tup([i \in 1..Len(m) |-> m[i][j]])

MulMV(m, v) == Tup([i \in 1..Len(m) |-> Dot(m[i], v)])

MulMM(a, b) ==
    Tup([i \in 1..Len(a) |-> Tup([j \in 1..Len(b[1]) |-> Dot(a[i], Column(b, j))])])

Transpose(m) == Tup([i \in 1..Len(m[1]) |-> Column(m, i)])

mat4_to_mat3(m) == Tup([i \in 1..3 |-> Tup([j \in 1..3 |-> m[i][j]])])

Det3(m) ==
      m[1][1] * (m[2][2] * m[3][3] - m[2][3] * m[3][2])
    - m[1][2] * (m[2][1] * m[3][3] - m[2][3] * m[3][1])
    + m[1][3] * (m[2][1] * m[3][2] - m[2][2] * m[3][1])

\* The cofactor of m at row i, column j.
Cofactor(m, i, j) ==
    LET r == IF i = 1 THEN <<2, 3>> ELSE IF i = 2 THEN <<1, 3>> ELSE <<1, 2>>
        c == IF j = 1 THEN <<2, 3>> ELSE IF j = 2 THEN <<1, 3>> ELSE <<1, 2>>
        minor == m[r[1]][c[1]] * m[r[2]][c[2]] - m[r[1]][c[2]] * m[r[2]][c[1]]
    IN  IF (i + j) % 2 = 0 THEN minor ELSE -minor

\* An inverse that hands back the matrix itself when the determinant is zero.
SingularKept(m, other) ==
    IF Det3(m) = 0 THEN m
    ELSE Tup([i \in 1..3 |-> Tup([j \in 1..3 |-> FDiv(Cofactor(m, j, i), Det3(m))])])

\* Matrix3::try_inverse followed by unwrap_or: the inverse, or `other` when
\* the determinant is zero.
try_inverse_or(m, other) ==
    IF Det3(m) = 0 THEN other
    ELSE Tup([i \in 1..3 |-> Tup([j \in 1..3 |-> FDiv(Cofactor(m, j, i), Det3(m))])])

----------------------------------------------------------------------------
(* Color: three 8-bit channels <<r, g, b>> *)

Clamp255(v) == IF v < 0 THEN 0 ELSE IF v > 255 THEN 255 ELSE v

\* Color::to_hex: the packed color 0xRRGGBB.
to_hex(c) == c[1] * 65536 + c[2] * 256 + c[3]

\* Color::lerp with the blend factor num/den.
lerp(a, b, num, den) ==
    Tup([i \in 1..3 |-> Clamp255(a[i] + FDiv((b[i] - a[i]) * num, den))])

\* Color * f32: every channel scaled by the factor.
ScaleColor(c, k) == Tup([i \in 1..3 |-> Clamp255(c[i] * k)])

----------------------------------------------------------------------------
(* Framebuffer: a color buffer and a parallel depth buffer, row-major *)

\* The far sentinel of the depth buffer, greater than every depth.
FarDepth == 1000

Pixels(fb) == 0..(fb.width * fb.height - 1)

Index(fb, x, y) == y * fb.width + x

InRange(fb, x, y) == x >= 0 /\ x < fb.width /\ y >= 0 /\ y < fb.height

NewFramebuffer(w, h) ==
    [width |-> w, height |-> h,
     buffer |-> [p \in 0..(w * h - 1) |-> 0],
     zbuffer |-> [p \in 0..(w * h - 1) |-> FarDepth],
     background_color |-> 0,
     current_color |-> 16777215]

set_background_color(fb, color) == [fb EXCEPT !.background_color = color]

set_current_color(fb, color) == [fb EXCEPT !.current_color = color]

\* clear that resets the colors and leaves the depths.
ClearColorOnly(fb) == [fb EXCEPT !.buffer = [p \in Pixels(fb) |-> fb.background_color]]

\* Every pixel to the background color, every depth slot to the far sentinel.
Clear(fb) ==
    [fb EXCEPT !.buffer = [p \in Pixels(fb) |-> fb.background_color],
               !.zbuffer = [p \in Pixels(fb) |-> FarDepth]]

\* point that also overwrites on equal depth.
PointOrEqual(fb, x, y, depth) ==
    IF InRange(fb, x, y) /\ depth <= fb.zbuffer[Index(fb, x, y)]
    THEN [fb EXCEPT !.buffer[Index(fb, x, y)] = fb.current_color,
                    !.zbuffer[Index(fb, x, y)] = depth]
    ELSE fb

\* point that writes the color and forgets the depth slot.
PointNoDepth(fb, x, y, depth) ==
    IF InRange(fb, x, y) /\ depth < fb.zbuffer[Index(fb, x, y)]
    THEN [fb EXCEPT !.buffer[Index(fb, x, y)] = fb.current_color]
    ELSE fb

\* Framebuffer::point: the current color and the depth are stored at (x, y)
\* when the depth is nearer than the one stored there, nothing otherwise.
\* A request outside the buffer is rejected.
Point(fb, x, y, depth) ==
    IF InRange(fb, x, y) /\ depth < fb.zbuffer[Index(fb, x, y)]
    THEN [fb EXCEPT !.buffer[Index(fb, x, y)] = fb.current_color,
                    !.zbuffer[Index(fb, x, y)] = depth]
    ELSE fb

IsCleared(fb) ==
    \A p \in Pixels(fb) : fb.buffer[p] = fb.background_color /\ fb.zbuffer[p] = FarDepth

----------------------------------------------------------------------------
(* Vertex and the vertex transform stage *)

Vertex(position, normal) ==
    [position |-> position, normal |-> normal,
     tex_coords |-> <<0, 0>>, color |-> <<0, 0, 0>>,
     transformed_position |-> position, transformed_normal |-> normal]

Uniforms(model, view, projection, viewport, t, seed) ==
    [model_matrix |-> model, view_matrix |-> view, projection_matrix |-> projection,
     viewport_matrix |-> viewport, time |-> t, noise |-> seed]

vertex_shader(vertex, uniforms) ==
    LET position == <<vertex.position[1], vertex.position[2], vertex.position[3], 1>>
        transformed == MulMV(MulMM(MulMM(uniforms.projection_matrix, uniforms.view_matrix),
                                   uniforms.model_matrix), position)
        w == transformed[4]
        ndc_position == <<FDiv(transformed[1], w), FDiv(transformed[2], w),
                          FDiv(transformed[3], w), 1>>
        screen_position == MulMV(uniforms.viewport_matrix, ndc_position)
        model_mat3 == mat4_to_mat3(uniforms.model_matrix)
        normal_matrix == try_inverse_or(Transpose(model_mat3), Identity3)
        transformed_normal == MulMV(normal_matrix, vertex.normal)
    IN  [position |-> vertex.position,
         normal |-> vertex.normal,
         tex_coords |-> vertex.tex_coords,
         color |-> vertex.color,
         transformed_position |-> <<screen_position[1], screen_position[2], screen_position[3]>>,
         transformed_normal |-> transformed_normal]

\* create_model_matrix with a zero rotation, the only one main passes: the
\* three rotation matrices are the identity.
create_model_matrix(translation, scale) ==
    LET transform_matrix == << <<scale, 0, 0, translation[1]>>,
                               <<0, scale, 0, translation[2]>>,
                               <<0, 0, scale, translation[3]>>,
                               <<0, 0, 0, 1>> >>
    IN  MulMM(transform_matrix, Identity4)

\* create_view_matrix for a camera that looks down the z axis with y up, as
\* main constructs it and as panning keeps it: look_at is a translation by
\* the negated eye.
create_view_matrix(eye) ==
    << <<1, 0, 0, -eye[1]>>, <<0, 1, 0, -eye[2]>>, <<0, 0, 1, -eye[3]>>, <<0, 0, 0, 1>> >>

\* 1/tan(fov/2) at model scale.
Focal == 1

\* The near and far plane at model scale.
NearPlane == 1

FarPlane == 3

\* create_perspective_matrix: glm's perspective(fov, aspect, near, far).
create_perspective_matrix(window_width, window_height) ==
    LET aspect_ratio == FDiv(window_width, window_height)
    IN  << <<FDiv(Focal, aspect_ratio), 0, 0, 0>>,
           <<0, Focal, 0, 0>>,
           <<0, 0, FDiv(-(FarPlane + NearPlane), FarPlane - NearPlane),
                   FDiv(-(2 * FarPlane * NearPlane), FarPlane - NearPlane)>>,
           <<0, 0, -1, 0>> >>

\* A viewport matrix that keeps the direction of the y axis.
create_viewport_matrix_unflipped(width, height) ==
    << <<FDiv(width, 2), 0, 0, FDiv(width, 2)>>,
       <<0, FDiv(height, 2), 0, FDiv(height, 2)>>,
       <<0, 0, 1, 0>>,
       <<0, 0, 0, 1>> >>

create_viewport_matrix(width, height) ==
    << <<FDiv(width, 2), 0, 0, FDiv(width, 2)>>,
       <<0, -FDiv(height, 2), 0, FDiv(height, 2)>>,
       <<0, 0, 1, 0>>,
       <<0, 0, 0, 1>> >>

----------------------------------------------------------------------------
(* Fragment and the triangle rasterizer *)

Fragment(x, y, depth, vertex_position) ==
    [position |-> <<x, y>>, depth |-> depth, intensity |-> 1,
     vertex_position |-> vertex_position]

\* The signed area (times two) of the triangle a, b, c in screen space.
edge_function(a, b, c) ==
    (c[1] - a[1]) * (b[2] - a[2]) - (c[2] - a[2]) * (b[1] - a[1])

Min3(a, b, c) == Min2(a, Min2(b, c))

Max3(a, b, c) == Max2(a, Max2(b, c))

\* The pixels of the box [min_x, max_x] x [min_y, max_y], row by row.
BoundingBox(min_x, max_x, min_y, max_y) ==
    LET bw == max_x - min_x + 1
        bh == max_y - min_y + 1
    IN  Tup([i \in 1..(bw * bh) |-> <<min_x + ((i - 1) % bw), min_y + ((i - 1) \div bw)>>])

\* The three edge functions of pixel p, each of the sign of the barycentric
\* weight it yields once divided by the area.
EdgeWeights(a, b, c, p) ==
    <<edge_function(b, c, p), edge_function(c, a, p), edge_function(a, b, p)>>

\* triangle: one fragment for every pixel of the bounding box whose three
\* barycentric weights are non-negative, none for a triangle without area;
\* depth and object position are the weighted sums of the vertices' values.
triangle(v1, v2, v3) ==
    LET a == v1.transformed_position
        b == v2.transformed_position
        c == v3.transformed_position
        area == edge_function(a, b, c)
        box == BoundingBox(Min3(a[1], b[1], c[1]), Max3(a[1], b[1], c[1]),
                           Min3(a[2], b[2], c[2]), Max3(a[2], b[2], c[2]))
        Inside(p) == LET e == EdgeWeights(a, b, c, p)
                     IN  area # 0 /\ e[1] * area >= 0 /\ e[2] * area >= 0 /\ e[3] * area >= 0
        covered == SelectSeq(box, Inside)
        Weighted(e, fa, fb, fc) == FDiv(e[1] * fa + e[2] * fb + e[3] * fc, area)
        Frag(p) == LET e == EdgeWeights(a, b, c, p)
                   IN  Fragment(p[1], p[2], Weighted(e, a[3], b[3], c[3]),
                                Tup([k \in 1..3 |-> Weighted(e, v1.position[k],
                                                             v2.position[k], v3.position[k])]))
    IN  Tup([i \in 1..Len(covered) |-> Frag(covered[i])])

----------------------------------------------------------------------------
(* Shaders.  The noise library and the trigonometric patterns are outside   *)
(* the program: a pattern is a deterministic choice, by seed, position and  *)
(* time, between the two base colors of the shader.                         *)

Pattern(seed, fragment, t) ==
    (seed + fragment.vertex_position[1] + 2 * fragment.vertex_position[2]
          + 3 * fragment.depth + t) % 2

sun_shader(fragment, uniforms) ==
    LET bright_color == <<255, 240, 0>>
        dark_color == <<130, 20, 0>>
        noise_value == Pattern(uniforms.noise, fragment, uniforms.time)
    IN  ScaleColor(lerp(dark_color, bright_color, noise_value, 1), fragment.intensity)

mars_shader(fragment, uniforms) ==
    LET bright_color == <<150, 70, 30>>
        dark_color == <<100, 40, 20>>
        combined_value == Pattern(uniforms.noise, fragment, 0)
    IN  ScaleColor(lerp(dark_color, bright_color, combined_value, 1), fragment.intensity)

moving_horizontal_stripes_shader(fragment, uniforms) ==
    LET color1 == <<255, 0, 0>>
        color2 == <<0, 0, 255>>
        stripe_factor == (fragment.vertex_position[2] + uniforms.time) % 2
    IN  ScaleColor(lerp(color1, color2, stripe_factor, 1), fragment.intensity)

moving_polka_dot_shader(fragment, uniforms) ==
    LET background_color == <<250, 250, 250>>
        dot_color == <<255, 0, 0>>
        dot_factor == (fragment.vertex_position[1] + fragment.vertex_position[2]
                       + uniforms.time) % 2
    IN  ScaleColor(lerp(background_color, dot_color, dot_factor, 1), fragment.intensity)

disco_ball_shader(fragment, uniforms) ==
    LET base_color == <<100, 100, 210>>
        light_color == <<255, 255, 255>>
        light_factor == (fragment.vertex_position[1] + uniforms.time) % 2
    IN  ScaleColor(lerp(base_color, light_color, light_factor * 7, 10), fragment.intensity)

\* A color cycle that stays on its last color instead of going back to the first.
color_cycling_without_wrap(fragment, uniforms) ==
    LET colors == << <<255, 0, 0>>, <<0, 255, 0>>, <<0, 0, 255>>,
                     <<255, 255, 0>>, <<255, 0, 255>>, <<0, 255, 255>> >>
        frames_per_color == 100
        color_index == (uniforms.time \div frames_per_color) % Len(colors)
        transition_progress == uniforms.time % frames_per_color
        current_color == colors[color_index + 1]
        next_color == colors[Min2(color_index + 1, Len(colors) - 1) + 1]
    IN  ScaleColor(lerp(current_color, next_color, transition_progress, frames_per_color),
                   fragment.intensity)

time_based_color_cycling_shader(fragment, uniforms) ==
    LET colors == << <<255, 0, 0>>, <<0, 255, 0>>, <<0, 0, 255>>,
                     <<255, 255, 0>>, <<255, 0, 255>>, <<0, 255, 255>> >>
        frames_per_color == 100
        color_index == (uniforms.time \div frames_per_color) % Len(colors)
        transition_progress == uniforms.time % frames_per_color
        current_color == colors[color_index + 1]
        next_color == colors[((color_index + 1) % Len(colors)) + 1]
    IN  ScaleColor(lerp(current_color, next_color, transition_progress, frames_per_color),
                   fragment.intensity)

\* moon_shader is imported by main.rs and defined in none of the sources at
\* hand: a gray surface patterned by the moon's noise.
moon_shader(fragment, uniforms) ==
    LET bright_color == <<200, 200, 200>>
        dark_color == <<90, 90, 90>>
        noise_value == Pattern(uniforms.noise, fragment, 0)
    IN  ScaleColor(lerp(dark_color, bright_color, noise_value, 1), fragment.intensity)

\* The shader main selects for the planet, by material id.
planet_shader(id) ==
    CASE id = 1 -> "sun_shader"
      [] id = 2 -> "mars_shader"
      [] id = 3 -> "moving_horizontal_stripes_shader"
      [] id = 4 -> "moving_polka_dot_shader"
      [] id = 5 -> "disco_ball_shader"
      [] OTHER  -> "time_based_color_cycling_shader"

\* The call through the function pointer render is given.
Shade(shader, fragment, uniforms) ==
    CASE shader = "sun_shader" -> sun_shader(fragment, uniforms)
      [] shader = "mars_shader" -> mars_shader(fragment, uniforms)
      [] shader = "moving_horizontal_stripes_shader" ->
            moving_horizontal_stripes_shader(fragment, uniforms)
      [] shader = "moving_polka_dot_shader" -> moving_polka_dot_shader(fragment, uniforms)
      [] shader = "disco_ball_shader" -> disco_ball_shader(fragment, uniforms)
      [] shader = "moon_shader" -> moon_shader(fragment, uniforms)
      [] OTHER -> time_based_color_cycling_shader(fragment, uniforms)

----------------------------------------------------------------------------
(* render *)

\* `value as usize` of an f32: the cast saturates, a negative value gives 0.
AsUsize(value) == IF value < 0 THEN 0 ELSE value

\* render, first loop: every vertex through the vertex shader.
TransformVertices(vertex_array, uniforms) ==
    Tup([i \in 1..Len(vertex_array) |-> vertex_shader(vertex_array[i], uniforms)])

\* render, second loop from index i on, stepping by `step`.
RECURSIVE AssembleFrom(_, _, _)
AssembleFrom(tv, i, step) ==
    IF i >= Len(tv) THEN <<>>
    ELSE (IF i + 2 < Len(tv) THEN << <<tv[i + 1], tv[i + 2], tv[i + 3]>> >> ELSE <<>>)
         \o AssembleFrom(tv, i + step, step)

\* Assembly that slides by one vertex, as for a triangle strip.
AssembleStrip(transformed_vertices) == AssembleFrom(transformed_vertices, 0, 1)

\* render, second loop: for i in (0..len).step_by(3), if i + 2 < len.
AssembleTriangles(transformed_vertices) == AssembleFrom(transformed_vertices, 0, 3)

\* A third loop that assigns where it should extend: the last triangle's
\* fragments are all that is left.
RasterizeLast(triangles) ==
    IF triangles = <<>> THEN <<>>
    ELSE triangle(triangles[Len(triangles)][1], triangles[Len(triangles)][2],
                  triangles[Len(triangles)][3])

\* render, third loop: the fragments of every triangle, in order.
RECURSIVE Rasterize(_)
Rasterize(triangles) ==
    IF triangles = <<>> THEN <<>>
    ELSE triangle(triangles[1][1], triangles[1][2], triangles[1][3])
         \o Rasterize(Tail(triangles))

\* The pixel one iteration of the fourth loop addresses.
PixelX(fragment) == AsUsize(fragment.position[1])

PixelY(fragment) == AsUsize(fragment.position[2])

\* The bounds check of the fourth loop.
PassesBounds(fb, fragment) ==
    PixelX(fragment) < fb.width /\ PixelY(fragment) < fb.height

\* An iteration that stores the color directly, past the depth test.
ProcessFragmentNoDepthTest(fb, fragment, shader, uniforms) ==
    IF PassesBounds(fb, fragment)
    THEN LET with_color == set_current_color(fb, to_hex(Shade(shader, fragment, uniforms)))
         IN  [with_color EXCEPT
                 !.buffer[Index(fb, PixelX(fragment), PixelY(fragment))] =
                     with_color.current_color]
    ELSE fb

\* An iteration that writes without shading: the color of the write before it stays.
ProcessFragmentStaleColor(fb, fragment, shader, uniforms) ==
    IF PassesBounds(fb, fragment)
    THEN Point(fb, PixelX(fragment), PixelY(fragment), fragment.depth)
    ELSE fb

\* render, fourth loop, one iteration: bounds check, shader, set_current_color, point.
ProcessFragment(fb, fragment, shader, uniforms) ==
    IF PassesBounds(fb, fragment)
    THEN Point(set_current_color(fb, to_hex(Shade(shader, fragment, uniforms))),
               PixelX(fragment), PixelY(fragment), fragment.depth)
    ELSE fb

NoCall ==
    [body |-> "none", shader |-> "none", uniforms |-> <<>>, vertex_array |-> <<>>,
     triangles |-> <<>>, emitted |-> <<>>, ret |-> "none"]

NoWrite ==
    [called |-> FALSE, x |-> 0, y |-> 0, depth |-> 0, color |-> 0, position |-> <<0, 0>>,
     repeat |-> FALSE]

\* Whether point(x, y, depth) repeats the pixel and depth of the point call before it.
Repeats(last, x, y, depth) ==
    last.called /\ last.x = x /\ last.y = y /\ last.depth = depth

\* The state of a render call once its first three loops have run.
BeginRender(body, uniforms, vertex_array, shader, ret) ==
    LET triangles == AssembleTriangles(TransformVertices(vertex_array, uniforms))
        emitted == Rasterize(triangles)
    IN  [body |-> body, shader |-> shader, uniforms |-> uniforms,
         vertex_array |-> vertex_array, triangles |-> triangles,
         emitted |-> emitted, ret |-> ret]

\* One iteration of render's fourth loop.
RenderFragment ==
    /\ pc = "render"
    /\ fragments # <<>>
    /\ framebuffer' = ProcessFragment(framebuffer, Head(fragments), call.shader, call.uniforms)
    /\ LET fragment == Head(fragments)
       IN  /\ lastWrite' =
                 IF PassesBounds(framebuffer, fragment)
                 THEN [called |-> TRUE, x |-> PixelX(fragment), y |-> PixelY(fragment),
                       depth |-> fragment.depth, color |-> framebuffer'.current_color,
                       position |-> fragment.position,
                       repeat |-> Repeats(lastWrite, PixelX(fragment), PixelY(fragment),
                                          fragment.depth)]
                 ELSE [NoWrite EXCEPT !.position = fragment.position]
           /\ frameWrites' = frameWrites \cup
                 {p \in Pixels(framebuffer) :
                     \/ framebuffer'.buffer[p] # framebuffer.buffer[p]
                     \/ framebuffer'.zbuffer[p] # framebuffer.zbuffer[p]}
           /\ written' =
                 IF PassesBounds(framebuffer, fragment)
                 THEN written \cup {[pixel |-> Index(framebuffer, PixelX(fragment),
                                                     PixelY(fragment)),
                                     depth |-> fragment.depth,
                                     color |-> framebuffer'.current_color]}
                 ELSE written
    /\ fragments' = Tail(fragments)
    /\ UNCHANGED <<last_key, pc, time, current_planet, camera, vertex_arrays, call, presented,
                   snapshot, ops>>

\* A render that returns with fragments left over.
RenderReturnEarly ==
    /\ pc = "render"
    /\ pc' = call.ret
    /\ UNCHANGED <<last_key, framebuffer, time, current_planet, camera, vertex_arrays, call,
                   fragments, lastWrite, frameWrites, presented, snapshot, written, ops>>

\* render returns once every fragment is processed.
RenderReturn ==
    /\ pc = "render"
    /\ fragments = <<>>
    /\ pc' = call.ret
    /\ UNCHANGED <<last_key, framebuffer, time, current_planet, camera, vertex_arrays, call,
                   fragments, lastWrite, frameWrites, presented, snapshot, written, ops>>

----------------------------------------------------------------------------
(* main: the frame loop *)

\* 0x333355, the background color main sets.
BackgroundColor == 3355477

\* The scale of the planet's model matrix.
PlanetScale == 2

\* The moon's scale and orbit radius at model scale.
MoonScale == 1

MoonDistance == 2

\* The camera's distance from the origin at start.
EyeZ == 3

MaxPan == 1       \* how far the camera pans to either side

MeshOf(positions) == Tup([i \in 1..Len(positions) |-> Vertex(positions[i], <<0, 0, 1>>)])

\* The vertex arrays Obj::load may hand to main: none, one triangle, two
\* overlapping triangles at different depths, and arrays that end in a
\* partial triple.
Meshes ==
    { MeshOf(<<>>),
      MeshOf(<< <<-1, -1, 0>>, <<1, -1, 0>>, <<-1, 1, 0>> >>),
      MeshOf(<< <<-1, -1, 0>>, <<1, -1, 0>>, <<-1, 1, 0>>,
                <<-1, -1, 1>>, <<1, 1, 0>>, <<1, -1, 0>> >>),
      MeshOf(<< <<-1, 1, 0>>, <<1, 1, 0>>, <<0, -1, 1>>, <<1, 0, 0>> >>),
      MeshOf(<< <<0, 0, 0>>, <<1, 1, 1>> >>) }

Keys == {"None", "Key1", "Key2", "Key3", "Key4", "Key5", "Key6", "Key7", "Space"}

\* A key match that falls back to the first material.
SelectPlanetOrFirst(key, planet) ==
    CASE key = "Key1" -> 1
      [] key = "Key2" -> 2
      [] key = "Key3" -> 3
      [] key = "Key4" -> 4
      [] key = "Key5" -> 5
      [] key = "Key6" -> 6
      [] key = "Key7" -> 7
      [] OTHER -> 1

\* main's match on window.get_keys().last().
SelectPlanet(key, planet) ==
    CASE key = "Key1" -> 1
      [] key = "Key2" -> 2
      [] key = "Key3" -> 3
      [] key = "Key4" -> 4
      [] key = "Key5" -> 5
      [] key = "Key6" -> 6
      [] key = "Key7" -> 7
      [] OTHER -> planet

\* main's match on current_planet for the noise: the seed stands for the instance.
PlanetNoise(planet) ==
    CASE planet = 1 -> 42
      [] planet = 2 -> 5678
      [] OTHER -> 0

\* cos and sin of the moon's orbit angle, which the frames of a run leave at 0.
CosOf(angle) == IF angle = 0 THEN 1 ELSE 0

SinOf(angle) == IF angle = 0 THEN 0 ELSE 1

\* calculate_moon_position with the orbit speed 0.001.
calculate_moon_position(t, distance) ==
    LET angle == FDiv(t, 1000)
    IN  <<distance * CosOf(angle), 0, distance * SinOf(angle)>>

\* handle_input, keys A and D: the camera moves by one unit along x.
\* movement is -1, 0 or 1; the camera stays within MaxPan.
handle_input(eye, movement) == <<eye[1] + movement, eye[2], eye[3]>>

Init ==
    /\ framebuffer = set_background_color(NewFramebuffer(2 * HalfW, 2 * HalfH),
                                          BackgroundColor)
    /\ pc = "loop"
    /\ time = 0
    /\ current_planet = 1
    /\ camera = <<0, 0, EyeZ>>
    /\ vertex_arrays \in Meshes
    /\ call = NoCall
    /\ fragments = <<>>
    /\ lastWrite = NoWrite
    /\ frameWrites = {}
    /\ presented = [count |-> 0, buffer |-> <<>>]
    /\ snapshot = <<>>
    /\ written = {}
    /\ ops = 0
    /\ last_key = "None"

\* while window.is_open() fails, or Escape is down: the loop ends.
Exit ==
    /\ pc = "loop"
    /\ pc' = "exit"
    /\ UNCHANGED <<last_key, framebuffer, time, current_planet, camera, vertex_arrays, call,
                   fragments, lastWrite, frameWrites, presented, snapshot, written, ops>>

\* The head of an iteration: time, the key match, handle_input.
FrameInput(key, movement) ==
    /\ pc = "loop"
    /\ time < MaxTime
    /\ Abs(camera[1] + movement) <= MaxPan
    /\ time' = time + 1
    /\ current_planet' = SelectPlanet(key, current_planet)
    /\ last_key' = key
    /\ camera' = handle_input(camera, movement)
    /\ frameWrites' = {}
    /\ presented' = [count |-> 0, buffer |-> <<>>]
    /\ lastWrite' = NoWrite
    /\ pc' = "clear"
    /\ UNCHANGED <<framebuffer, vertex_arrays, call, fragments, snapshot, written, ops>>

\* A frame that goes on without clearing.
ClearStepSkipped ==
    /\ pc = "clear"
    /\ pc' = "planet"
    /\ UNCHANGED <<last_key, framebuffer, time, current_planet, camera, vertex_arrays, call,
                   fragments, lastWrite, frameWrites, presented, snapshot, written, ops>>

\* framebuffer.clear()
ClearStep ==
    /\ pc = "clear"
    /\ framebuffer' = Clear(framebuffer)
    /\ written' = {}
    /\ snapshot' = framebuffer
    /\ pc' = "planet"
    /\ UNCHANGED <<last_key, time, current_planet, camera, vertex_arrays, call, fragments,
                   lastWrite, frameWrites, presented, ops>>

\* The uniforms of the planet and the call of render for it.
RenderPlanet ==
    /\ pc = "planet"
    /\ LET model_matrix == create_model_matrix(<<0, 0, 0>>, PlanetScale)
           view_matrix == create_view_matrix(camera)
           projection_matrix == create_perspective_matrix(2 * HalfW, 2 * HalfH)
           viewport_matrix == create_viewport_matrix(framebuffer.width, framebuffer.height)
           uniforms_planet == Uniforms(model_matrix, view_matrix, projection_matrix,
                                       viewport_matrix, time, PlanetNoise(current_planet))
       IN  call' = BeginRender("planet", uniforms_planet, vertex_arrays,
                               planet_shader(current_planet), "after_planet")
    /\ fragments' = call'.emitted
    /\ pc' = "render"
    /\ UNCHANGED <<last_key, framebuffer, time, current_planet, camera, vertex_arrays, lastWrite,
                   frameWrites, presented, snapshot, written, ops>>

\* if current_planet == 2: the uniforms of the moon and the call of render for it.
RenderMoon ==
    /\ pc = "after_planet"
    /\ current_planet = 2
    /\ LET moon_position == calculate_moon_position(time, MoonDistance)
           moon_model_matrix == create_model_matrix(moon_position, MoonScale)
           uniforms_moon == Uniforms(moon_model_matrix, call.uniforms.view_matrix,
                                     call.uniforms.projection_matrix,
                                     call.uniforms.viewport_matrix, time, 42)
       IN  call' = BeginRender("moon", uniforms_moon, vertex_arrays, "moon_shader", "present")
    /\ fragments' = call'.emitted
    /\ pc' = "render"
    /\ UNCHANGED <<last_key, framebuffer, time, current_planet, camera, vertex_arrays, lastWrite,
                   frameWrites, presented, snapshot, written, ops>>

\* A frame that goes to present without looking at the material.
SkipMoonAlways ==
    /\ pc = "after_planet"
    /\ pc' = "present"
    /\ UNCHANGED <<last_key, framebuffer, time, current_planet, camera, vertex_arrays, call,
                   fragments, lastWrite, frameWrites, presented, snapshot, written, ops>>

\* Any other material: no moon.
SkipMoon ==
    /\ pc = "after_planet"
    /\ current_planet # 2
    /\ pc' = "present"
    /\ UNCHANGED <<last_key, framebuffer, time, current_planet, camera, vertex_arrays, call,
                   fragments, lastWrite, frameWrites, presented, snapshot, written, ops>>

\* A frame that hands the buffer to the window twice.
PresentTwice ==
    /\ pc = "present"
    /\ presented' = [count |-> presented.count + 1, buffer |-> framebuffer.buffer]
    /\ pc' = IF presented.count = 0 THEN "present" ELSE "loop"
    /\ UNCHANGED <<last_key, framebuffer, time, current_planet, camera, vertex_arrays, call,
                   fragments, lastWrite, frameWrites, snapshot, written, ops>>

\* window.update_with_buffer(&framebuffer.buffer, ...)
Present ==
    /\ pc = "present"
    /\ presented' = [count |-> presented.count + 1, buffer |-> framebuffer.buffer]
    /\ pc' = "loop"
    /\ UNCHANGED <<last_key, framebuffer, time, current_planet, camera, vertex_arrays, call,
                   fragments, lastWrite, frameWrites, snapshot, written, ops>>

Next ==
    \/ Exit
    \/ \E key \in Keys, movement \in {-1, 0, 1} : FrameInput(key, movement)
    \/ ClearStep
    \/ RenderPlanet
    \/ RenderFragment
    \/ RenderReturn
    \/ RenderMoon
    \/ SkipMoon
    \/ Present

Spec == Init /\ [][Next]_vars

\* The frame loop with render running on, for a camera at rest and the
\* keys that select a material with a moon and one without: render is a loop
\* over a vector in a single thread, so an iteration that can be taken is
\* taken, and so is the return.  Nothing is assumed about the keys or Escape.
LiveKeys == {"None", "Key2", "Key6"}

NextLive ==
    \/ Exit
    \/ \E key \in LiveKeys : FrameInput(key, 0)
    \/ ClearStep
    \/ RenderPlanet
    \/ RenderFragment
    \/ RenderReturn
    \/ RenderMoon
    \/ SkipMoon
    \/ Present

SpecLive ==
    Init /\ [][NextLive]_vars /\ WF_vars(RenderFragment) /\ WF_vars(RenderReturn)

----------------------------------------------------------------------------
(* The Framebuffer on its own: any sequence of point, set_current_color and *)
(* clear, as a caller that keeps to the contract of point may make it.      *)

\* The colors the driver sets: two shades the shaders produce.
ApiColors == {to_hex(<<255, 240, 0>>), to_hex(<<130, 20, 0>>)}

\* The pixels the driver writes: two opposite corners.
ApiPixels(fb) == {<<0, 0>>, <<fb.width - 1, fb.height - 1>>}

InitFb ==
    /\ framebuffer = set_background_color(NewFramebuffer(FbSide, FbSide), BackgroundColor)
    /\ pc = "api"
    /\ time = 0
    /\ current_planet = 1
    /\ camera = <<0, 0, EyeZ>>
    /\ vertex_arrays = <<>>
    /\ call = NoCall
    /\ fragments = <<>>
    /\ lastWrite = NoWrite
    /\ frameWrites = {}
    /\ presented = [count |-> 0, buffer |-> <<>>]
    /\ snapshot = <<>>
    /\ written = {}
    /\ ops = 0
    /\ last_key = "None"

\* framebuffer.point(x, y, depth)
ApiPoint(x, y, depth) ==
    /\ pc = "api"
    /\ ops < MaxOps
    /\ framebuffer' = Point(framebuffer, x, y, depth)
    /\ lastWrite' = [called |-> TRUE, x |-> x, y |-> y, depth |-> depth,
                     color |-> framebuffer.current_color, position |-> <<x, y>>,
                     repeat |-> Repeats(lastWrite, x, y, depth)]
    /\ written' = written \cup {[pixel |-> Index(framebuffer, x, y), depth |-> depth,
                                 color |-> framebuffer.current_color]}
    /\ snapshot' = framebuffer
    /\ ops' = ops + 1
    /\ call' = [NoCall EXCEPT !.body = "point"]
    /\ UNCHANGED <<last_key, pc, time, current_planet, camera, vertex_arrays, fragments,
                   frameWrites, presented>>

\* framebuffer.set_current_color(color)
ApiSetCurrentColor(color) ==
    /\ pc = "api"
    /\ ops < MaxOps
    /\ framebuffer' = set_current_color(framebuffer, color)
    /\ snapshot' = framebuffer
    /\ ops' = ops + 1
    /\ call' = [NoCall EXCEPT !.body = "set_current_color"]
    /\ UNCHANGED <<last_key, pc, time, current_planet, camera, vertex_arrays, fragments,
                   lastWrite, frameWrites, presented, written>>

\* framebuffer.clear()
ApiClear ==
    /\ pc = "api"
    /\ ops < MaxOps
    /\ framebuffer' = Clear(framebuffer)
    /\ written' = {}
    /\ lastWrite' = NoWrite
    /\ snapshot' = framebuffer
    /\ ops' = ops + 1
    /\ call' = [NoCall EXCEPT !.body = "clear"]
    /\ UNCHANGED <<last_key, pc, time, current_planet, camera, vertex_arrays, fragments,
                   frameWrites, presented>>

NextFb ==
    \/ \E xy \in ApiPixels(framebuffer), depth \in 0..MaxDepth : ApiPoint(xy[1], xy[2], depth)
    \/ \E color \in ApiColors : ApiSetCurrentColor(color)
    \/ ApiClear

SpecFb == InitFb /\ [][NextFb]_vars

----------------------------------------------------------------------------
(* render on its own: a vertex array already in screen coordinates is drawn *)
(* into a cleared framebuffer, then drawn again DepthShift farther with     *)
(* another shader.                                                          *)

\* Screen coordinates left of, inside and right of the framebuffer.
Coords == {-1, 1, RSide}

ScreenPoints == {<<x, y>> : x \in Coords, y \in Coords}

\* The depths of the three vertices of a triangle.
DepthPatterns == {<<0, 0, 0>>, <<0, 2, 1>>}

Less(p, q) == p[1] < q[1] \/ (p[1] = q[1] /\ p[2] < q[2])

\* Triangles of either winding, with and without area.
TriangleShapes ==
    {t \in ScreenPoints \X ScreenPoints \X ScreenPoints : Less(t[1], t[2])}

Triangles ==
    {<< <<t[1][1], t[1][2], z[1]>>, <<t[2][1], t[2][2], z[2]>>, <<t[3][1], t[3][2], z[3]>> >> :
        t \in TriangleShapes, z \in DepthPatterns}

\* A triangle over the whole framebuffer at depth 1.
Covering == << <<-1, -1, 1>>, <<2 * RSide - 1, -1, 1>>, <<-1, 2 * RSide - 1, 1>> >>

\* Up to two vertices that begin a triple and do not end it.
Partial == {<<>>, << <<1, 1, 0>> >>, << <<1, 1, 0>>, <<RSide, 1, 0>> >>}

RenderMeshes ==
    {MeshOf(t \o rest) : t \in Triangles, rest \in Partial \cup {Covering}}
    \cup {MeshOf(rest) : rest \in Partial}

IdentityUniforms(model, seed) == Uniforms(model, Identity4, Identity4, Identity4, 0, seed)

InitRender ==
    /\ framebuffer = Clear(set_background_color(NewFramebuffer(RSide, RSide),
                                                BackgroundColor))
    /\ pc = "first_pass"
    /\ time = 0
    /\ current_planet = 1
    /\ camera = <<0, 0, EyeZ>>
    /\ vertex_arrays \in RenderMeshes
    /\ call = NoCall
    /\ fragments = <<>>
    /\ lastWrite = NoWrite
    /\ frameWrites = {}
    /\ presented = [count |-> 0, buffer |-> <<>>]
    /\ snapshot = <<>>
    /\ written = {}
    /\ ops = 0
    /\ last_key = "None"

\* render(&mut framebuffer, &uniforms, &vertex_array, sun_shader)
FirstPass ==
    /\ pc = "first_pass"
    /\ call' = BeginRender("first", IdentityUniforms(Identity4, 42), vertex_arrays,
                           "sun_shader", "second_pass")
    /\ fragments' = call'.emitted
    /\ pc' = "render"
    /\ UNCHANGED <<last_key, framebuffer, time, current_planet, camera, vertex_arrays, lastWrite,
                   frameWrites, presented, snapshot, written, ops>>

\* render of the same vertex array, the model matrix moving it DepthShift away.
SecondPass ==
    /\ pc = "second_pass"
    /\ snapshot' = framebuffer
    /\ call' = BeginRender("second",
                           IdentityUniforms(create_model_matrix(<<0, 0, DepthShift>>, 1), 5678),
                           vertex_arrays, "mars_shader", "done")
    /\ fragments' = call'.emitted
    /\ pc' = "render"
    /\ UNCHANGED <<last_key, framebuffer, time, current_planet, camera, vertex_arrays, lastWrite,
                   frameWrites, presented, written, ops>>

NextRender ==
    \/ FirstPass
    \/ RenderFragment
    \/ RenderReturn
    \/ SecondPass

SpecRender == InitRender /\ [][NextRender]_vars

----------------------------------------------------------------------------
(* f32 where NaN and infinity matter: the lighting of the shaders.  A value  *)
(* is a number in fixed point (Unit stands for 1.0), NaN, or an infinity.    *)

\* 1.0 in fixed point.
Unit == 100

F32(v) == [kind |-> "num", v |-> v]

NaN == [kind |-> "nan", v |-> 0]

Infinity(sign) == [kind |-> "inf", v |-> sign]

is_nan(a) == a.kind = "nan"

is_infinite(a) == a.kind = "inf"

\* The sign of a value that is not NaN.
SignOf(a) == Sign(a.v)

\* a / b: 0/0 and inf/inf are NaN, x/0 is an infinity.
f32_div(a, b) ==
    CASE is_nan(a) \/ is_nan(b) -> NaN
      [] is_infinite(a) /\ is_infinite(b) -> NaN
      [] is_infinite(a) -> Infinity(a.v * (IF b.v < 0 THEN -1 ELSE 1))
      [] is_infinite(b) -> F32(0)
      [] b.v = 0 -> IF a.v = 0 THEN NaN ELSE Infinity(Sign(a.v))
      [] OTHER -> F32(FDiv(a.v * Unit, b.v))

\* a * b: NaN is contagious, inf * 0 is NaN.
f32_mul(a, b) ==
    CASE is_nan(a) \/ is_nan(b) -> NaN
      [] is_infinite(a) \/ is_infinite(b) ->
            IF SignOf(a) * SignOf(b) = 0 THEN NaN ELSE Infinity(SignOf(a) * SignOf(b))
      [] OTHER -> F32(FDiv(a.v * b.v, Unit))

\* a + b: NaN is contagious, inf + -inf is NaN.
f32_add(a, b) ==
    CASE is_nan(a) \/ is_nan(b) -> NaN
      [] is_infinite(a) /\ is_infinite(b) -> IF a.v = b.v THEN a ELSE NaN
      [] is_infinite(a) -> a
      [] is_infinite(b) -> b
      [] OTHER -> F32(a.v + b.v)

\* f32::max: when one argument is NaN the other one is returned.
f32_max(a, b) ==
    CASE is_nan(a) -> b
      [] is_nan(b) -> a
      [] is_infinite(a) -> IF a.v > 0 THEN a ELSE b
      [] is_infinite(b) -> IF b.v > 0 THEN b ELSE a
      [] OTHER -> IF a.v >= b.v THEN a ELSE b

\* The largest k in lo..hi with k * k <= n.
RECURSIVE SqrtIn(_, _, _)
SqrtIn(n, lo, hi) ==
    IF lo >= hi THEN lo
    ELSE LET mid == (lo + hi + 1) \div 2
         IN  IF mid * mid <= n THEN SqrtIn(n, mid, hi) ELSE SqrtIn(n, lo, mid - 1)

\* Vec3::magnitude of a vector of whole numbers, in fixed point.
magnitude(v) == F32(SqrtIn(Dot(v, v) * Unit * Unit, 0, Min2(Dot(v, v) * Unit * Unit, 40000)))

\* Vec3::normalize: every component divided by the magnitude, with no guard
\* for the zero vector, whose components become 0/0.
normalize(v) == LET m == magnitude(v)
                IN  Tup([i \in 1..3 |-> f32_div(F32(v[i] * Unit), m)])

\* glm's dot of two vectors of f32.
dot(u, v) == f32_add(f32_add(f32_mul(u[1], v[1]), f32_mul(u[2], v[2])), f32_mul(u[3], v[3]))

\* Color * f32 with the factor in fixed point; the cast to u8 saturates and
\* gives 0 for NaN.
MulColor(c, k) ==
    CASE is_nan(k) -> <<0, 0, 0>>
      [] is_infinite(k) -> IF k.v > 0 THEN <<255, 255, 255>> ELSE <<0, 0, 0>>
      [] OTHER -> Tup([i \in 1..3 |-> Clamp255(FDiv(c[i] * k.v, Unit))])

\* Color + Color, saturating.
AddColor(a, b) == Tup([i \in 1..3 |-> Clamp255(a[i] + b[i])])

\* A fragment with the interpolated normal the lit shaders read.
LitFragment(vertex_position, normal) ==
    Fragment(0, 0, 0, vertex_position) @@ [normal |-> normal]

Sub(u, v) == Tup([i \in 1..3 |-> u[i] - v[i]])

\* What a call of a shader comes to: a color, or the panic that ends the program.
Returned(color) == [panicked |-> FALSE, color |-> color]

Panicked == [panicked |-> TRUE, color |-> <<0, 0, 0>>]

----------------------------------------------------------------------------
(* The lit shaders.  Noise is a deterministic choice among n values, by     *)
(* seed and object position.                                                *)

Band(seed, fragment, n) ==
    (seed + fragment.vertex_position[1] + 2 * fragment.vertex_position[2]
          + 3 * fragment.vertex_position[3]) % n

earth_shader_wrapper(fragment, uniforms) ==
    LET water_color_1 == <<0, 25, 153>>
        land_color_2 == <<51, 204, 51>>
        cloud_color == <<229, 229, 229>>
        base_color == IF Band(uniforms.noise, fragment, 2) = 1 THEN land_color_2
                      ELSE water_color_1
        light_position == <<1, 1, 3>>
        light_dir == normalize(Sub(light_position, fragment.vertex_position))
        normal == normalize(fragment.normal)
        diffuse == f32_max(dot(normal, light_dir), F32(0))
        lit_color == MulColor(base_color, f32_add(F32(10), f32_mul(F32(90), diffuse)))
        cloud_opacity == F32(80)
    IN  IF Band(uniforms.noise + uniforms.time, fragment, 3) = 2
        THEN Returned(AddColor(lit_color, MulColor(cloud_color, cloud_opacity)))
        ELSE Returned(lit_color)

jupiter_shader(fragment, uniforms) ==
    LET band_colors == << <<198, 188, 173>>, <<149, 93, 54>>, <<199, 199, 207>> >>
        index == Band(uniforms.noise, fragment, 3)
        color1 == band_colors[(index % Len(band_colors)) + 1]
        turbulence_color == lerp(color1, <<255, 255, 255>>, 3, 10)
        light_position == <<0, 8, 9>>
        light_direction == normalize(Sub(light_position, fragment.vertex_position))
        normal == normalize(fragment.normal)
        diffuse == f32_max(dot(normal, light_direction), F32(0))
        ambient_color == MulColor(turbulence_color, F32(15))
        lit_color == MulColor(turbulence_color, diffuse)
    IN  IF is_nan(diffuse) \/ is_infinite(diffuse)
        THEN Panicked
        ELSE Returned(AddColor(ambient_color, lit_color))

mercury_shader(fragment, uniforms) ==
    LET gray_light == <<178, 178, 178>>
        gray_dark == <<102, 102, 102>>
        brown == <<127, 102, 76>>
        lerp_factor == Band(uniforms.noise, fragment, 2)
        base_color == lerp(lerp(gray_light, gray_dark, lerp_factor, 1), brown, lerp_factor, 2)
        light_pos == <<0, 8, 9>>
        light_dir == normalize(Sub(light_pos, fragment.vertex_position))
        normal == normalize(fragment.normal)
        diffuse_intensity == f32_max(dot(normal, light_dir), F32(0))
        lit_color == MulColor(base_color, diffuse_intensity)
        ambient_color == MulColor(base_color, F32(20))
    IN  IF is_nan(diffuse_intensity) \/ is_infinite(diffuse_intensity)
        THEN Panicked
        ELSE Returned(AddColor(ambient_color, lit_color))

uranus_shader(fragment, uniforms) ==
    LET base_color == <<51, 127, 229>>
        intensity == F32(50 + 50 * Band(uniforms.noise, fragment, 2))
        varied_color == MulColor(base_color, intensity)
        light_dir == normalize(<<1, 1, 1>>)
        normal == normalize(fragment.normal)
        diffuse_intensity == f32_max(dot(normal, light_dir), F32(0))
        lit_color == MulColor(varied_color,
                              f32_add(F32(30), f32_mul(F32(70), diffuse_intensity)))
    IN  IF is_nan(diffuse_intensity) \/ is_infinite(diffuse_intensity)
        THEN Panicked
        ELSE Returned(lit_color)

saturn_shader(fragment, uniforms) ==
    LET band_colors == << <<198, 188, 173>>, <<149, 93, 54>>, <<199, 199, 207>> >>
        index == Band(uniforms.noise, fragment, 3)
        color1 == band_colors[(index % Len(band_colors)) + 1]
        turbulence_color == lerp(color1, <<255, 255, 255>>, 3, 10)
        light_position == <<0, 8, 9>>
        light_direction == normalize(Sub(light_position, fragment.vertex_position))
        normal == normalize(fragment.normal)
        diffuse == f32_max(dot(normal, light_direction), F32(0))
        ambient_color == MulColor(turbulence_color, F32(15))
        lit_color == MulColor(turbulence_color, diffuse)
    IN  IF is_nan(diffuse) \/ is_infinite(diffuse)
        THEN Panicked
        ELSE Returned(AddColor(ambient_color, lit_color))

saturn_ring_shader(fragment, uniforms) ==
    LET band_colors == << <<225, 190, 160>>, <<245, 230, 200>>, <<255, 255, 240>>,
                          <<200, 180, 150>>, <<230, 210, 190>> >>
        band_index == Abs(fragment.vertex_position[1]) + Abs(fragment.vertex_position[3])
        base_color == band_colors[(band_index % Len(band_colors)) + 1]
        light_position == <<1, 1, 3>>
        light_dir == normalize(Sub(light_position, fragment.vertex_position))
        normal == normalize(fragment.normal)
        diffuse_intensity == f32_max(dot(normal, light_dir), F32(0))
        final_light_factor == f32_add(F32(30), f32_mul(F32(70), diffuse_intensity))
        lit_color == MulColor(base_color, final_light_factor)
    IN  Returned(lit_color)

mercury_shader_wrapper(fragment, uniforms) ==
    LET bright_color == <<229, 229, 229>>
        dark_color == <<76, 51, 25>>
        combined_value == Band(uniforms.noise, fragment, 2)
        base_color == lerp(dark_color, bright_color, combined_value, 1)
        light_position == <<0, 0, 5>>
        light_direction == normalize(Sub(light_position, fragment.vertex_position))
        normal == normalize(fragment.normal)
        diffuse_intensity == f32_max(dot(normal, light_direction), F32(0))
        lit_color == MulColor(base_color,
                              f32_add(F32(30), f32_mul(F32(70), diffuse_intensity)))
    IN  Returned(MulColor(lit_color, F32(Unit * fragment.intensity)))

LitShaders ==
    {"earth_shader_wrapper", "jupiter_shader", "mercury_shader", "uranus_shader",
     "saturn_shader", "saturn_ring_shader", "mercury_shader_wrapper"}

\* A call of the lit shader of that name.
ShadeLit(shader, fragment, uniforms) ==
    CASE shader = "earth_shader_wrapper" -> earth_shader_wrapper(fragment, uniforms)
      [] shader = "jupiter_shader" -> jupiter_shader(fragment, uniforms)
      [] shader = "mercury_shader" -> mercury_shader(fragment, uniforms)
      [] shader = "uranus_shader" -> uranus_shader(fragment, uniforms)
      [] shader = "saturn_shader" -> saturn_shader(fragment, uniforms)
      [] shader = "saturn_ring_shader" -> saturn_ring_shader(fragment, uniforms)
      [] OTHER -> mercury_shader_wrapper(fragment, uniforms)

----------------------------------------------------------------------------
(* The pure functions on their own: the lit shaders, vertex_shader and      *)
(* time_based_color_cycling_shader applied once to inputs of small sets.    *)
(* call holds the application: what was applied, to what, and the result.   *)

MaxCycleTime == 650   \* the frame counters from 0 on the cycling shader is given

\* Object-space normals: the zero vector, unit vectors, longer vectors.
Normals == {<<0, 0, 0>>, <<0, 0, 1>>, <<0, 1, 0>>, <<-1, 0, 0>>, <<1, 1, 0>>, <<0, 0, 2>>}

\* Object positions of fragments: around the origin, and at the lights of the shaders.
LitPositions ==
    {<<0, 0, 0>>, <<1, 0, 0>>, <<0, 1, 0>>, <<0, 0, 1>>, <<0, 8, 9>>, <<1, 1, 3>>, <<0, 0, 5>>}

\* Model matrices: identity, a shear, a quarter turn about z with a
\* translation, a mirror, and the singular ones: scale 0, a projection onto
\* the xy plane, and a matrix of rank one.
Linear(r1, r2, r3, translation) ==
    << <<r1[1], r1[2], r1[3], translation[1]>>,
       <<r2[1], r2[2], r2[3], translation[2]>>,
       <<r3[1], r3[2], r3[3], translation[3]>>,
       <<0, 0, 0, 1>> >>

ModelMatrices ==
    { Identity4,
      Linear(<<1, 1, 0>>, <<0, 1, 0>>, <<0, 0, 1>>, <<0, 0, 0>>),
      Linear(<<0, -1, 0>>, <<1, 0, 0>>, <<0, 0, 1>>, <<1, 0, 0>>),
      Linear(<<1, 0, 0>>, <<0, 1, 0>>, <<0, 0, -1>>, <<0, 0, 0>>),
      create_model_matrix(<<0, 0, 0>>, 0),
      Linear(<<1, 0, 0>>, <<0, 1, 0>>, <<0, 0, 0>>, <<0, 0, 0>>),
      Linear(<<1, 1, 1>>, <<1, 1, 1>>, <<1, 1, 1>>, <<0, 1, 0>>) }

ViewMatrices == {Identity4, create_view_matrix(<<1, 0, 0>>)}

ProjectionMatrices ==
    {Identity4, << <<2, 0, 0, 0>>, <<0, 2, 0, 0>>, <<0, 0, 1, 0>>, <<0, 0, 0, 1>> >>}

ViewportMatrices == {Identity4, create_viewport_matrix(2 * HalfW, 2 * HalfH)}

VertexPositions == {<<0, 0, 0>>, <<1, -1, 0>>, <<-1, 1, 1>>, <<1, 1, -1>>}

\* A vertex as Obj hands it out, with its own texture coordinates and color.
LoadedVertex(position, normal, tex_coords, color) ==
    [Vertex(position, normal) EXCEPT !.tex_coords = tex_coords, !.color = color]

\* The frame counters the cycling shader is given: the first ones, and the
\* last ones a signed 32-bit counter reaches.
CycleTimes == (0..MaxCycleTime) \cup (2147483500..2147483646) \cup {2147483647}

InitFn ==
    /\ framebuffer = NewFramebuffer(1, 1)
    /\ pc = "apply"
    /\ time = 0
    /\ current_planet = 1
    /\ camera = <<0, 0, EyeZ>>
    /\ vertex_arrays = <<>>
    /\ call = NoCall
    /\ fragments = <<>>
    /\ lastWrite = NoWrite
    /\ frameWrites = {}
    /\ presented = [count |-> 0, buffer |-> <<>>]
    /\ snapshot = <<>>
    /\ written = {}
    /\ ops = 0
    /\ last_key = "None"

\* shader(&fragment, &uniforms) for one of the lit shaders.
ApplyLitShader(shader, vertex_position, normal, seed) ==
    /\ pc = "apply"
    /\ LET fragment == LitFragment(vertex_position, normal)
           uniforms == IdentityUniforms(Identity4, seed)
       IN  call' = [body |-> "shade", shader |-> shader, fragment |-> fragment,
                    uniforms |-> uniforms, result |-> ShadeLit(shader, fragment, uniforms)]
    /\ pc' = "applied"
    /\ UNCHANGED <<last_key, framebuffer, time, current_planet, camera, vertex_arrays, fragments,
                   lastWrite, frameWrites, presented, snapshot, written, ops>>

\* vertex_shader(&vertex, &uniforms)
ApplyVertexShader(vertex, uniforms) ==
    /\ pc = "apply"
    /\ call' = [body |-> "vertex_shader", vertex |-> vertex, uniforms |-> uniforms,
                result |-> vertex_shader(vertex, uniforms)]
    /\ pc' = "applied"
    /\ UNCHANGED <<last_key, framebuffer, time, current_planet, camera, vertex_arrays, fragments,
                   lastWrite, frameWrites, presented, snapshot, written, ops>>

\* time_based_color_cycling_shader(&fragment, &uniforms) at frame counter t.
ApplyCycling(t) ==
    /\ pc = "apply"
    /\ LET fragment == Fragment(0, 0, 0, <<0, 0, 0>>)
           uniforms == Uniforms(Identity4, Identity4, Identity4, Identity4, t, 0)
       IN  call' = [body |-> "cycling", fragment |-> fragment, uniforms |-> uniforms,
                    result |-> time_based_color_cycling_shader(fragment, uniforms)]
    /\ pc' = "applied"
    /\ UNCHANGED <<last_key, framebuffer, time, current_planet, camera, vertex_arrays, fragments,
                   lastWrite, frameWrites, presented, snapshot, written, ops>>

NextFn ==
    \/ \E shader \in LitShaders, vertex_position \in LitPositions, normal \in Normals,
          seed \in {0, 42} :
          ApplyLitShader(shader, vertex_position, normal, seed)
    \/ \E position \in VertexPositions, normal \in {<<0, 0, 1>>, <<1, 1, 0>>, <<-1, 0, 2>>},
          color \in {<<0, 0, 0>>, <<255, 240, 0>>},
          model \in ModelMatrices, view \in ViewMatrices,
          projection \in ProjectionMatrices, viewport \in ViewportMatrices :
          ApplyVertexShader(LoadedVertex(position, normal, <<position[1], position[2]>>, color),
                            Uniforms(model, view, projection, viewport, 0, 0))
    \/ \E t \in CycleTimes : ApplyCycling(t)

SpecFn == InitFn /\ [][NextFn]_vars

----------------------------------------------------------------------------
(* Properties of the Framebuffer, under SpecFb *)

\* The pixels of fb other than the one at index i are the same in a and b.
SameElsewhere(a, b, i) ==
    \A p \in Pixels(a) \ {i} : a.buffer[p] = b.buffer[p] /\ a.zbuffer[p] = b.zbuffer[p]

SameSettings(a, b) ==
    /\ a.width = b.width /\ a.height = b.height
    /\ a.background_color = b.background_color
    /\ a.current_color = b.current_color

\* C1: point(x, y, depth) on an in-range pixel stores the current color and
\* the depth at that pixel when the depth is nearer (smaller) than the one
\* stored there, both in the same step and nothing else; when the depth is
\* not nearer the call changes nothing.
C1_PointWritesIffNearer ==
    (pc = "api" /\ call.body = "point") =>
        LET i == Index(snapshot, lastWrite.x, lastWrite.y)
        IN  IF lastWrite.depth < snapshot.zbuffer[i]
            THEN /\ framebuffer.buffer[i] = snapshot.current_color
                 /\ framebuffer.zbuffer[i] = lastWrite.depth
                 /\ SameElsewhere(framebuffer, snapshot, i)
                 /\ SameSettings(framebuffer, snapshot)
            ELSE framebuffer = snapshot

\* A point call has overwritten a pixel that held a farther fragment of another color.
C1_Witness ==
    /\ pc = "api" /\ call.body = "point"
    /\ snapshot.zbuffer[Index(snapshot, lastWrite.x, lastWrite.y)] # FarDepth
    /\ lastWrite.depth < snapshot.zbuffer[Index(snapshot, lastWrite.x, lastWrite.y)]
    /\ snapshot.buffer[Index(snapshot, lastWrite.x, lastWrite.y)] # snapshot.current_color

\* C2: after clear(), whatever was drawn before, every pixel holds the
\* background color and every depth slot the far sentinel, and a point call
\* at any pixel with any depth then succeeds.
C2_ClearResetsAll ==
    (pc = "api" /\ call.body = "clear") =>
        /\ IsCleared(framebuffer)
        /\ \A x \in 0..(framebuffer.width - 1), y \in 0..(framebuffer.height - 1),
              depth \in (-MaxDepth)..MaxDepth :
              LET after == Point(framebuffer, x, y, depth)
              IN  /\ after.buffer[Index(framebuffer, x, y)] = framebuffer.current_color
                  /\ after.zbuffer[Index(framebuffer, x, y)] = depth

\* clear() has run on a framebuffer that held a fragment at depth 0.
C2_Witness ==
    /\ pc = "api" /\ call.body = "clear"
    /\ \E p \in Pixels(snapshot) :
          snapshot.zbuffer[p] = 0 /\ snapshot.buffer[p] # snapshot.background_color

\* The fragments written to the pixel at index p.
At(fragmentSet, p) == {f \in fragmentSet : f.pixel = p}

\* No two fragments of the set meet at one pixel with one depth.
DistinctDepths(fragmentSet) ==
    \A f \in fragmentSet, g \in fragmentSet :
        (f.pixel = g.pixel /\ f.depth = g.depth) => f = g

Nearest(fragmentSet) == CHOOSE f \in fragmentSet : \A g \in fragmentSet : f.depth <= g.depth

\* C4: when the fragments written since the last clear have pairwise
\* distinct depths per pixel, every pixel one of them targets holds color and
\* depth of the nearest of them, and every other pixel is untouched: the
\* framebuffer depends on the set written, not on the order of writing.
C4_OrderIndependent ==
    (pc = "api" /\ DistinctDepths(written)) =>
        \A p \in Pixels(framebuffer) :
            IF At(written, p) = {}
            THEN /\ framebuffer.zbuffer[p] = FarDepth
                 /\ framebuffer.buffer[p] \in {0, framebuffer.background_color}
            ELSE /\ framebuffer.buffer[p] = Nearest(At(written, p)).color
                 /\ framebuffer.zbuffer[p] = Nearest(At(written, p)).depth

\* Two fragments of different colors met at a pixel, the farther written last.
C4_Witness ==
    /\ pc = "api" /\ call.body = "point" /\ DistinctDepths(written)
    /\ \E f \in written :
          /\ f.pixel = Index(framebuffer, lastWrite.x, lastWrite.y)
          /\ f.depth < lastWrite.depth
          /\ f.color # lastWrite.color

\* C7: a second write of the same pixel and depth, whatever color is current
\* by then, leaves color buffer and depth buffer as the first write left them.
C7_SameWriteTwice ==
    (pc = "api" /\ call.body = "point" /\ lastWrite.repeat) =>
        /\ framebuffer.buffer = snapshot.buffer
        /\ framebuffer.zbuffer = snapshot.zbuffer

\* The same pixel and depth were written twice, the first write having passed
\* and another color being current at the second.
C7_Witness ==
    /\ pc = "api" /\ call.body = "point" /\ lastWrite.repeat
    /\ snapshot.zbuffer[Index(snapshot, lastWrite.x, lastWrite.y)] = lastWrite.depth
    /\ snapshot.buffer[Index(snapshot, lastWrite.x, lastWrite.y)] # lastWrite.color

----------------------------------------------------------------------------
(* Properties of the frame loop, under Spec *)

\* C3: in every frame the framebuffer is cleared before the planet is
\* rendered, and while the frame is drawn a pixel no fragment of this frame
\* has written holds the background color and the far depth: nothing of an
\* earlier frame is left to draw into.
C3_ClearedBeforeRender ==
    /\ pc = "planet" => IsCleared(framebuffer)
    /\ pc \in {"render", "after_planet", "present"} =>
          \A p \in Pixels(framebuffer) \ frameWrites :
              /\ framebuffer.buffer[p] = framebuffer.background_color
              /\ framebuffer.zbuffer[p] = FarDepth

\* A second frame is being drawn, and a pixel the frame before had written
\* has not been written in this one.
C3_Witness ==
    /\ pc = "render" /\ time > 1 /\ frameWrites # {}
    /\ \E p \in Pixels(framebuffer) \ frameWrites : snapshot.zbuffer[p] # FarDepth

----------------------------------------------------------------------------
(* Properties of render, under SpecRender *)

\* C5 as claimed: a fragment whose screen coordinates lie outside the
\* framebuffer, negative ones included, never reaches point; point is called
\* with the fragment's own coordinates.
C5_OffScreenDiscarded ==
    lastWrite.called =>
        /\ InRange(framebuffer, lastWrite.position[1], lastWrite.position[2])
        /\ lastWrite.x = lastWrite.position[1]
        /\ lastWrite.y = lastWrite.position[2]

\* render has run its first three loops and is about to process its first fragment.
Rasterized == pc = "render" /\ Len(fragments) = Len(call.emitted)

\* The triangles of the vertex stream tv, by index: the k-th is (3k, 3k+1, 3k+2).
TriplesOf(tv) ==
    [k \in 1..(Len(tv) \div 3) |-> <<tv[3 * k - 2], tv[3 * k - 1], tv[3 * k]>>]

\* C6: render assembles floor(n/3) triangles from n vertices, the k-th from
\* the vertices 3k, 3k+1, 3k+2 of the stream, and the fragments it goes on
\* to process are those of the vertices before the trailing n mod 3.
C6_ConsecutiveTriples ==
    Rasterized =>
        LET tv == TransformVertices(call.vertex_array, call.uniforms)
            n == Len(call.vertex_array)
        IN  /\ Len(call.triangles) = n \div 3
            /\ \A k \in 1..Len(call.triangles) : call.triangles[k] = TriplesOf(tv)[k]
            /\ call.emitted = Rasterize(TriplesOf(SubSeq(tv, 1, 3 * (n \div 3))))
            /\ (n < 3 => call.emitted = <<>>)

\* A stream of five vertices is being rendered: one triangle with fragments,
\* two vertices left over.
C6_Witness ==
    /\ Rasterized
    /\ Len(call.vertex_array) = 5
    /\ call.emitted # <<>>

\* C8: once the first pass is drawn, no fragment of the second pass, which
\* lies strictly farther everywhere, changes the color buffer or the depth
\* buffer, whatever color its shader computes.
C8_FartherPassIsNoOp ==
    (call.body = "second" /\ pc \in {"render", "done"}) =>
        /\ framebuffer.buffer = snapshot.buffer
        /\ framebuffer.zbuffer = snapshot.zbuffer

\* The second pass is over; it offered a pixel the first pass had written
\* another color at a farther depth.
C8_Witness ==
    /\ pc = "done" /\ lastWrite.called
    /\ snapshot.zbuffer[Index(snapshot, lastWrite.x, lastWrite.y)] < lastWrite.depth
    /\ snapshot.buffer[Index(snapshot, lastWrite.x, lastWrite.y)] # lastWrite.color

\* Whether pixel p is covered by the triangle: the triangle has area, p lies
\* in its bounding box, and each barycentric weight, an edge function over
\* the area, is non-negative.
Covers(tri, p) ==
    LET a == tri[1].transformed_position
        b == tri[2].transformed_position
        c == tri[3].transformed_position
        area == edge_function(a, b, c)
        NonNegative(e) == (e = 0) \/ (Sign(e) = Sign(area))
    IN  /\ area # 0
        /\ p[1] >= Min3(a[1], b[1], c[1]) /\ p[1] <= Max3(a[1], b[1], c[1])
        /\ p[2] >= Min3(a[2], b[2], c[2]) /\ p[2] <= Max3(a[2], b[2], c[2])
        /\ NonNegative(edge_function(b, c, p))
        /\ NonNegative(edge_function(c, a, p))
        /\ NonNegative(edge_function(a, b, p))

\* The screen positions a vertex of the render driver can span.
Screen == {<<x, y>> : x \in (-1)..(2 * RSide), y \in (-1)..(2 * RSide)}

\* C9: the fragments of a render call are, pixel by pixel, one for every
\* triangle that has area and covers the pixel with three non-negative
\* weights, and no others; a triangle without area contributes none.
C9_ExactCoverage ==
    Rasterized =>
        /\ \A i \in 1..Len(call.emitted) : call.emitted[i].position \in Screen
        /\ \A p \in Screen :
              Cardinality({i \in 1..Len(call.emitted) : call.emitted[i].position = p})
                = Cardinality({k \in 1..Len(call.triangles) : Covers(call.triangles[k], p)})

\* Two triangles with area are being rendered that overlap in a pixel, which
\* has one fragment of each.
C9_Witness ==
    /\ Rasterized /\ Len(call.triangles) = 2
    /\ \E p \in Screen :
          /\ Covers(call.triangles[1], p) /\ Covers(call.triangles[2], p)
          /\ Cardinality({i \in 1..Len(call.emitted) : call.emitted[i].position = p}) = 2
    /\ \E p \in Screen : Covers(call.triangles[2], p) /\ ~Covers(call.triangles[1], p)

\* The fragments of the call at the pixel (x, y).
FragmentsAt(x, y) ==
    {i \in 1..Len(call.emitted) : call.emitted[i].position = <<x, y>>}

\* C10 as claimed: after a render call into a cleared framebuffer every pixel
\* no fragment covers holds the background color and the far depth, and
\* every covered pixel holds the depth of a fragment of that pixel.
C10_OnlyCoveredPixelsChange ==
    (pc = "second_pass") =>
        \A x \in 0..(framebuffer.width - 1), y \in 0..(framebuffer.height - 1) :
            LET p == Index(framebuffer, x, y)
            IN  IF FragmentsAt(x, y) = {}
                THEN /\ framebuffer.buffer[p] = framebuffer.background_color
                     /\ framebuffer.zbuffer[p] = FarDepth
                ELSE \E i \in FragmentsAt(x, y) :
                        /\ framebuffer.zbuffer[p] = call.emitted[i].depth
                        /\ \A j \in FragmentsAt(x, y) :
                              call.emitted[i].depth <= call.emitted[j].depth

----------------------------------------------------------------------------
(* Shader dispatch *)

\* The shader a render call of main is given: the planet's by material id, the moon's own.
ShaderOfCall ==
    IF call.body = "moon" THEN "moon_shader" ELSE planet_shader(current_planet)

\* C11: within one render call every fragment that passes the bounds check is
\* shaded by the one shader the call was given (the planet's is the one the
\* material id selects), the call's shader and uniforms do not change while
\* it runs, and the color a successful point stores is that shader's output
\* for the very fragment being written.
C11_OneShaderPerCall ==
    [][(pc = "render" /\ fragments # <<>>) =>
          LET fragment == Head(fragments)
              color == to_hex(Shade(ShaderOfCall, fragment, call.uniforms))
              p == Index(framebuffer, PixelX(fragment), PixelY(fragment))
          IN  /\ call' = call
              /\ current_planet' = current_planet
              /\ call.shader = ShaderOfCall
              /\ PassesBounds(framebuffer, fragment) =>
                    /\ lastWrite'.called
                    /\ lastWrite'.color = color
                    /\ framebuffer'.current_color = color
                    /\ fragment.depth < framebuffer.zbuffer[p] =>
                          framebuffer'.buffer[p] = color
                    /\ \A q \in Pixels(framebuffer) :
                          framebuffer'.buffer[q] # framebuffer.buffer[q] =>
                              q = p /\ framebuffer'.buffer[q] = color]_vars

\* The moon's call has just stored a color of the moon's shader while the
\* framebuffer still shows a color the planet's call stored with mars_shader.
C11_Witness ==
    /\ pc = "render"
    /\ call.body = "moon"
    /\ lastWrite.called
    /\ lastWrite.color \in {to_hex(<<200, 200, 200>>), to_hex(<<90, 90, 90>>)}
    /\ framebuffer.buffer[Index(framebuffer, lastWrite.x, lastWrite.y)] = lastWrite.color
    /\ \E q \in Pixels(framebuffer) :
          framebuffer.buffer[q] \in {to_hex(<<150, 70, 30>>), to_hex(<<100, 40, 20>>)}

----------------------------------------------------------------------------
(* Lighting of the shaders, under SpecFn *)

\* The position of the light of a lit shader.
LightPositionOf(shader) ==
    CASE shader \in {"earth_shader_wrapper", "saturn_ring_shader"} -> <<1, 1, 3>>
      [] shader = "mercury_shader_wrapper" -> <<0, 0, 5>>
      [] OTHER -> <<0, 8, 9>>

\* The diffuse dot product the shader computes for the fragment: normal times
\* light direction, both normalized.
DiffuseDotOf(shader, fragment) ==
    dot(normalize(fragment.normal),
        IF shader = "uranus_shader" THEN normalize(<<1, 1, 1>>)
        ELSE normalize(Sub(LightPositionOf(shader), fragment.vertex_position)))

\* C12: whenever the diffuse dot product of a lit shader is NaN or infinite
\* (a zero-length normal or light vector), the shader aborts: it returns no
\* color.
C12_NanDiffuseAborts ==
    (call.body = "shade") =>
        LET d == DiffuseDotOf(call.shader, call.fragment)
        IN  (is_nan(d) \/ is_infinite(d)) => call.result.panicked

----------------------------------------------------------------------------
(* vertex_shader, under SpecFn *)

\* C13: vertex_shader returns a vertex for every model matrix.  When the
\* transposed 3x3 part of the model matrix is singular the transformed
\* normal is the object-space normal (the normal matrix is the identity);
\* otherwise it is the inverse of that transposed part times the normal,
\* that is the one vector the transposed part maps back to the normal,
\* whatever the view, projection and viewport matrices are.
C13_NormalMatrixFallback ==
    (call.body = "vertex_shader") =>
        LET transposed == Transpose(mat4_to_mat3(call.uniforms.model_matrix))
            normal == call.vertex.normal
            transformed_normal == call.result.transformed_normal
        IN  IF Det3(transposed) = 0
            THEN transformed_normal = normal
            ELSE MulMV(transposed, transformed_normal) = normal

\* vertex_shader has run with a singular model matrix that is not the zero
\* matrix and with a view, a projection and a viewport other than the
\* identity, and has handed the normal through.
C13_Witness ==
    /\ call.body = "vertex_shader"
    /\ Det3(Transpose(mat4_to_mat3(call.uniforms.model_matrix))) = 0
    /\ MulMV(Transpose(mat4_to_mat3(call.uniforms.model_matrix)), call.vertex.normal)
           # <<0, 0, 0>>
    /\ call.uniforms.view_matrix # Identity4
    /\ call.uniforms.projection_matrix # Identity4
    /\ call.uniforms.viewport_matrix # Identity4
    /\ call.result.transformed_normal = call.vertex.normal

\* The application is one with identity model, view and projection matrices.
IdentityChain ==
    /\ call.body = "vertex_shader"
    /\ call.uniforms.model_matrix = Identity4
    /\ call.uniforms.view_matrix = Identity4
    /\ call.uniforms.projection_matrix = Identity4

\* C14: with identity model, view and projection matrices the transformed
\* position of a vertex at (x, y, z) is the viewport matrix applied to
\* (x, y, z, 1): (x, y, z) itself under the identity viewport, and
\* ((x + 1) * width / 2, (1 - y) * height / 2, z) under the viewport of a
\* width by height framebuffer; position, normal, texture coordinates and
\* color of the vertex are handed through.
C14_IdentityChain ==
    IdentityChain =>
        LET vertex == call.vertex
            x == vertex.position[1]
            y == vertex.position[2]
            z == vertex.position[3]
            width == 2 * HalfW
            height == 2 * HalfH
            applied == MulMV(call.uniforms.viewport_matrix, <<x, y, z, 1>>)
        IN  /\ call.result.transformed_position = <<applied[1], applied[2], applied[3]>>
            /\ call.result.transformed_position =
                  IF call.uniforms.viewport_matrix = Identity4
                  THEN <<x, y, z>>
                  ELSE <<FDiv((x + 1) * width, 2), FDiv((1 - y) * height, 2), z>>
            /\ call.result.position = vertex.position
            /\ call.result.normal = vertex.normal
            /\ call.result.tex_coords = vertex.tex_coords
            /\ call.result.color = vertex.color

\* A vertex off the x axis, with a color, has gone through the identity chain
\* and the viewport of the framebuffer, and its y came out flipped.
C14_Witness ==
    /\ IdentityChain
    /\ call.uniforms.viewport_matrix # Identity4
    /\ call.vertex.position[2] = -1
    /\ call.vertex.color # <<0, 0, 0>>
    /\ call.result.transformed_position[2] = 2 * HalfH

----------------------------------------------------------------------------
(* Completion of render and the order of a frame, under Spec and SpecLive *)

\* C15: every render call returns, and it returns only when none of the
\* fragments it emitted is left: control goes back to where main called it
\* from, with every vertex transformed and every triangle assembled and
\* rasterized at the start of the call.
C15_RenderRunsToCompletion ==
    /\ [][(pc = "render" /\ pc' # "render") =>
             (fragments = <<>> /\ pc' = call.ret /\ call' = call)]_vars
    /\ [](pc = "render" =>
             /\ Len(call.triangles) = Len(call.vertex_array) \div 3
             /\ Len(fragments) <= Len(call.emitted)
             /\ fragments = SubSeq(call.emitted, Len(call.emitted) - Len(fragments) + 1,
                                   Len(call.emitted)))
    /\ (pc = "render") ~> (pc # "render" /\ fragments = <<>>)

\* The moon's render call has returned to main after its fragments were processed.
C15_Witness ==
    /\ pc = "present"
    /\ call.body = "moon"
    /\ call.emitted # <<>>
    /\ fragments = <<>>
    /\ \E q \in Pixels(framebuffer) :
          framebuffer.buffer[q] \in {to_hex(<<200, 200, 200>>), to_hex(<<90, 90, 90>>)}

\* C16: a frame presents the pixel buffer exactly once.  From the head of the
\* frame until its render calls are done nothing has been presented; the
\* buffer is handed over only when no render call is running, after the
\* planet's call and, for material 2, the moon's; once the frame is over the
\* window has been given the buffer once, as the frame left it.  Escape ends
\* the loop only between two frames.
C16_PresentedOncePerFrame ==
    /\ [](pc \in {"clear", "planet", "render", "after_planet", "present"} =>
             presented.count = 0)
    /\ []((pc \in {"loop", "exit"} /\ time > 0) =>
             /\ presented.count = 1
             /\ presented.buffer = framebuffer.buffer)
    /\ []((pc = "exit") => presented.count = IF time > 0 THEN 1 ELSE 0)
    /\ [][(presented'.count > presented.count) =>
             /\ pc = "present"
             /\ fragments = <<>>
             /\ call.body = IF current_planet = 2 THEN "moon" ELSE "planet"
             /\ call.uniforms.time = time
             /\ presented'.buffer = framebuffer.buffer
             /\ framebuffer' = framebuffer]_vars

\* A frame with a moon is over and the window was given its buffer once,
\* with pixels of the planet and of the moon in it.
C16_Witness ==
    /\ pc = "loop"
    /\ time > 0
    /\ current_planet = 2
    /\ presented.count = 1
    /\ \E q \in Pixels(framebuffer) :
          presented.buffer[q] \in {to_hex(<<200, 200, 200>>), to_hex(<<90, 90, 90>>)}
    /\ \E q \in Pixels(framebuffer) :
          presented.buffer[q] \in {to_hex(<<150, 70, 30>>), to_hex(<<100, 40, 20>>)}

\* C17: when the planet's render call of a frame has returned, the moon's
\* call is issued if the material id is 2 and the frame goes on to present
\* if it is not.  The moon's call starts on the framebuffer as the planet's
\* call left it (nothing clears it outside the clear at the head of the
\* frame), with the frame's time and the view, projection and viewport
\* matrices of the planet's call, and with a model matrix and a noise
\* instance of its own.
C17_MoonOnlyForMaterialTwo ==
    /\ [][(pc = "after_planet") =>
             IF current_planet = 2
             THEN /\ call.body = "planet"
                  /\ call'.body = "moon"
                  /\ pc' = "render"
                  /\ framebuffer' = framebuffer
                  /\ call'.vertex_array = call.vertex_array
                  /\ call'.uniforms.time = time
                  /\ call.uniforms.time = time
                  /\ call'.uniforms.view_matrix = call.uniforms.view_matrix
                  /\ call'.uniforms.projection_matrix = call.uniforms.projection_matrix
                  /\ call'.uniforms.viewport_matrix = call.uniforms.viewport_matrix
                  /\ call'.uniforms.model_matrix # call.uniforms.model_matrix
                  /\ call'.uniforms.noise # call.uniforms.noise
             ELSE pc' = "present" /\ call' = call]_vars
    /\ [][(call'.body = "moon" /\ call.body # "moon") =>
             (pc = "after_planet" /\ current_planet = 2)]_vars
    /\ [][(pc # "clear" /\ IsCleared(framebuffer')) => IsCleared(framebuffer)]_vars
    /\ [](pc = "present" => (call.body = "moon" <=> current_planet = 2))

\* The moon's call has just been issued on a framebuffer the planet's call drew into.
C17_Witness ==
    /\ pc = "render"
    /\ call.body = "moon"
    /\ current_planet = 2
    /\ fragments = call.emitted
    /\ fragments # <<>>
    /\ ~IsCleared(framebuffer)

----------------------------------------------------------------------------
(* The selected material, under Spec *)

\* The material a digit key stands for; 0 for any other key and for no key.
DigitOf(key) ==
    CASE key = "Key1" -> 1 [] key = "Key2" -> 2 [] key = "Key3" -> 3 [] key = "Key4" -> 4
      [] key = "Key5" -> 5 [] key = "Key6" -> 6 [] key = "Key7" -> 7 [] OTHER -> 0

\* The shader each material id stands for.
ShaderOfMaterial ==
    <<"sun_shader", "mars_shader", "moving_horizontal_stripes_shader",
      "moving_polka_dot_shader", "disco_ball_shader",
      "time_based_color_cycling_shader", "time_based_color_cycling_shader">>

\* C18: the selected material id is 1 at start and always in 1..7.  It
\* changes only at the head of a frame: to the digit of the last key
\* reported when that is one of the keys 1 to 7, and not at all otherwise.
\* The planet's render call is given the shader of the id: sun, mars,
\* horizontal stripes, polka dots, disco ball for 1 to 5, and the color
\* cycling shader for both 6 and 7.
C18_MaterialInRange ==
    /\ current_planet = 1
    /\ [](current_planet \in 1..7)
    /\ [][(pc = "loop" /\ pc' = "clear") =>
             current_planet' = IF DigitOf(last_key') # 0 THEN DigitOf(last_key')
                               ELSE current_planet]_vars
    /\ [][(current_planet' # current_planet) => (pc = "loop" /\ pc' = "clear")]_vars
    /\ []((pc = "render" /\ call.body = "planet") =>
             call.shader = ShaderOfMaterial[current_planet])

\* Material 7 was selected in an earlier frame, the last key reported is not
\* a digit, and the planet is being drawn by the color cycling shader.
C18_Witness ==
    /\ pc = "render"
    /\ call.body = "planet"
    /\ time > 1
    /\ last_key = "Space"
    /\ current_planet = 7
    /\ call.shader = "time_based_color_cycling_shader"

----------------------------------------------------------------------------
(* The color cycle, under SpecFn *)

\* The six colors of the cycle: red, green, blue, yellow, magenta, cyan.
Palette ==
    << <<255, 0, 0>>, <<0, 255, 0>>, <<0, 0, 255>>,
       <<255, 255, 0>>, <<255, 0, 255>>, <<0, 255, 255>> >>

\* C19: at frame counter t the color cycling shader gives, for a fragment of
\* intensity 1, the blend of palette entry (t div 100) mod 6 toward entry
\* ((t div 100) + 1) mod 6 with progress (t mod 100)/100: every channel is
\* within one step of the exact blend.  Both entries are among the six, the
\* last one is followed by the first, and at a multiple of 100 the blend is
\* the palette entry itself.
C19_ColorCycle ==
    (call.body = "cycling") =>
        LET t == call.uniforms.time
            index == (t \div 100) % 6
            next == ((t \div 100) + 1) % 6
            progress == t % 100
            from == Palette[index + 1]
            to == Palette[next + 1]
            blend == call.result
        IN  /\ index \in 0..5 /\ next \in 0..5
            /\ (index = 5) => (next = 0)
            /\ progress \in 0..99
            /\ \A k \in 1..3 :
                  Abs(100 * blend[k] - (100 * from[k] + (to[k] - from[k]) * progress)) < 100
            /\ (progress = 0) => (blend = from)

\* The shader has run half-way between the last color of the palette and the first.
C19_Witness ==
    /\ call.body = "cycling"
    /\ (call.uniforms.time \div 100) % 6 = 5
    /\ call.uniforms.time % 100 = 50
    /\ call.result = <<127, 127, 127>>

====
